---- MODULE Spec2Model ----
(***************************************************************************)
(* Model of op-SCD: the command line tool mv_scene_extractor.py and the    *)
(* Flet front end mv_scene_gui.py.  Both detect scenes with PySceneDetect, *)
(* compute one mid-scene timecode per scene and call ffmpeg once per       *)
(* timecode.  One behaviour of the model is one session of one of the two  *)
(* programs: a command line run, or a GUI session in which the user sets   *)
(* the controls and then clicks "Start Extraction" once.  PySceneDetect,   *)
(* ffmpeg and the file system are the environment: their answers are       *)
(* chosen nondeterministically.  SpecClicks is the GUI session in which a  *)
(* second click arrives before the button is disabled, SpecCall is a       *)
(* caller of calculate_midframes and calculate_midframes_logic alone, and  *)
(* SpecFair is Spec with the handler and the worker thread scheduled.      *)
(*                                                                         *)
(* Times are integers in ticks of 1/60000 second, a resolution at which    *)
(* the frames of 25, 30 and 30000/1001 frames per second start on a tick;  *)
(* scene boundaries are frame numbers of the video (PySceneDetect's        *)
(* FrameTimecode).  A string the code builds with an f-string is a record  *)
(* holding the literal head of the string and the values formatted into    *)
(* it.                                                                     *)
(***************************************************************************)
EXTENDS Integers, Sequences, FiniteSets, TLC

VARIABLES
    program,                    \* "cli" | "gui": which script this session runs;
                                \* "call": a program that calls their functions
    pc,                         \* position of the running handler / worker / script
    \* ---- controls of the GUI (mv_scene_gui.py, main) ----
    selected_video_path_text,   \* Text.value
    selected_output_dir_text,   \* Text.value
    algo_dropdown,              \* Dropdown.value
    threshold_input,            \* TextField.value
    min_scene_len_input,        \* TextField.value
    window_size_input,          \* TextField.value
    min_content_val_input,      \* TextField.value
    settings_row2_adaptive,     \* Row.visible
    status_text,                \* Text.value
    progress_bar,               \* ProgressBar.visible
    image_grid,                 \* GridView.controls: sequence of image paths
    start_button,               \* ElevatedButton.disabled
    client_storage,             \* page.client_storage["video_frame_rate"] or "None"
    \* ---- file system ----
    dirs,                       \* state of each directory path
    files,                      \* image files present in the output directory
    settings_file,              \* extraction_settings.txt: "absent" or its content
    \* ---- arguments and locals of the running pipeline ----
    args,                       \* arguments of the run (thread args / argparse namespace)
    via,                        \* "main" | "call": how detect_scenes was entered (cli);
                                \* the function called, when one is called on its own
    video_manager,              \* "none" | "open" | "started" | "released"
    detector,                   \* the configured detector or "none"
    scenes,                     \* scene_list
    midframes,                  \* list of timecode strings
    idx,                        \* loop index of the extraction loop
    extracted_images_paths,     \* list built by extract_frames_logic
    extraction_successful,      \* flag of run_extraction_thread_fn
    exc,                        \* exception being propagated, or "none"
    \* ---- what the environment observes ----
    captures,                   \* ffmpeg invocations of the run, in order
    console,                    \* lines written with print()
    ui_writes,                  \* <<control, thread>> for every mutation of a control
    created_dirs,               \* the directories an os.makedirs of the session created
    callbacks,                  \* calls of status_callback and image_callback made by
                                \* extract_frames_logic, in order
    \* ---- a second click on "Start Extraction" ----
    second                      \* the handler and the worker of that click

ui_inputs == <<selected_video_path_text, selected_output_dir_text, algo_dropdown,
               threshold_input, min_scene_len_input, window_size_input,
               min_content_val_input, settings_row2_adaptive, client_storage>>
ui_outputs == <<status_text, progress_bar, image_grid, start_button, ui_writes>>
disk == <<dirs, files, settings_file>>
locals == <<args, via, video_manager, detector, scenes, midframes, idx,
            extracted_images_paths, extraction_successful, exc>>
history == <<created_dirs, callbacks>>
vars == <<program, pc, ui_inputs, ui_outputs, disk, locals, captures, console, history,
          second>>

---------------------------------------------------------------------------
(* Bounds of the model *)

\* largest number of scenes PySceneDetect reports for a video
MaxScenes == 3

---------------------------------------------------------------------------
(* The environment: videos, directories, user input *)

NoVideoText == "No video selected yet."
CancelledVideoText == "Video selection cancelled or no file chosen."
CancelledDirText == "Output directory selection cancelled."

\* the float seconds of the code, counted in ticks: ticks per second
TicksPerSecond == 60000

\* a frame rate: num / den frames per second
Fps(num, den) == [num |-> num, den |-> den]

\* the frame rate of NTSC video, 29.97...
NtscFps == Fps(30000, 1001)

\* 1 / fps, in ticks
FrameDuration(fps) == (TicksPerSecond * fps.den) \div fps.num

\* paths a user can hand to the programs, and what is stored there
VideoFiles == [p \in {"/v/ok.mp4", "/v/bad.mp4", "/v/gone.mp4"} |->
                 CASE p = "/v/ok.mp4"   -> [kind |-> "video", fps |-> Fps(25, 1)]
                   [] p = "/v/bad.mp4"  -> [kind |-> "junk", fps |-> Fps(0, 1)]
                   [] p = "/v/gone.mp4" -> [kind |-> "missing", fps |-> Fps(0, 1)]]
VideoPaths == DOMAIN VideoFiles

Algorithms == {"adaptive", "content", "threshold", "hist"}
AlgoInputs == Algorithms \cup {"bogus"}

\* texts a user types into a numeric field
TypedTexts == {"2.5", "abc"}

\* frames of one scene of the videos
SceneFrames == 50

\* a FrameTimecode of PySceneDetect: a frame number and the rate of the video
FrameTimecode(f, fps) == [frame |-> f, fps |-> fps]

\* a scene list of n scenes, scene k covering frames (k-1)*SceneFrames .. k*SceneFrames
SceneList(n, fps) ==
    [k \in 1..n |-> <<FrameTimecode((k - 1) * SceneFrames, fps),
                      FrameTimecode(k * SceneFrames, fps)>>]

\* what scene_manager.get_scene_list() can return for a video
SceneLists(path) == {SceneList(n, VideoFiles[path].fps) : n \in 0..MaxScenes}

\* longest scene list handed to calculate_midframes and calculate_midframes_logic
\* when they are called on their own
MaxCallScenes == 2

\* frame numbers of the scene boundaries of such a call: the first frames, the
\* frames around the fifth minute of an NTSC video, a frame hours into a video
CallFrames == {0, 1, 58, 8983, 8999, 270000}

\* frame rates of the videos and of the frame_rate argument
CallFps == {Fps(25, 1), Fps(30, 1), NtscFps}

\* the scenes of such a call: start < end, both at the frame rate of the video
CallScenes ==
    {scene \in {<<FrameTimecode(a, fps), FrameTimecode(b, fps)>> :
                   a \in CallFrames, b \in CallFrames, fps \in {Fps(25, 1), NtscFps}} :
       scene[1].frame < scene[2].frame}

\* the scene lists of such a call
CallSceneLists == UNION {[1..n -> CallScenes] : n \in 0..MaxCallScenes}

\* directories the programs write to: the default of the GUI, the default of
\* the command line, a directory the user picks
DefaultOutputPath == "cwd/extracted_scenes"
DirPaths == {DefaultOutputPath, "midframes", "/out/picked"}

---------------------------------------------------------------------------
(* Strings and conversions *)

\* a message: the literal text it starts with, what it reports, a number and a
\* timecode formatted into it
Msg(head, what, n, tc) == [head |-> head, what |-> what, n |-> n, tc |-> tc]
NoTc == {}

\* str.startswith: the heads the code compares with are "Error:" and
\* "ffmpeg error"; "Error during extraction:" does not start with "Error:"
StartsWith(msg, prefix) == msg.head = prefix

\* float(text): the value in hundredths, or a ValueError
ParseFloat(text) ==
    CASE text = "3.0"  -> [ok |-> TRUE, val |-> 300]
      [] text = "27.0" -> [ok |-> TRUE, val |-> 2700]
      [] text = "12.0" -> [ok |-> TRUE, val |-> 1200]
      [] text = "0.40" -> [ok |-> TRUE, val |-> 40]
      [] text = "15.0" -> [ok |-> TRUE, val |-> 1500]
      [] text = "15"   -> [ok |-> TRUE, val |-> 1500]
      [] text = "2"    -> [ok |-> TRUE, val |-> 200]
      [] text = "2.5"  -> [ok |-> TRUE, val |-> 250]
      [] OTHER         -> [ok |-> FALSE, val |-> 0]

\* int(text): the value, or a ValueError (int("2.5") raises)
ParseInt(text) ==
    CASE text = "15" -> [ok |-> TRUE, val |-> 15]
      [] text = "2"  -> [ok |-> TRUE, val |-> 2]
      [] OTHER       -> [ok |-> FALSE, val |-> 0]

\* the decimal digits of n, most significant first
RECURSIVE Digits(_)
Digits(n) == IF n < 10 THEN <<n>> ELSE Append(Digits(n \div 10), n % 10)

\* f"{n:0{width}d}"
RECURSIVE ZeroPad(_, _)
ZeroPad(ds, width) == IF Len(ds) >= width THEN ds ELSE ZeroPad(<<0>> \o ds, width)

\* f"{idx:04d}"
Format04d(n) == ZeroPad(Digits(n), 4)

\* os.path.join(output_dir, f"{idx:04d}.{image_ext}"), zero based: a slip
OutPathZeroBased(output_dir, n, image_ext) ==
    [dir |-> output_dir, stem |-> Format04d(n - 1), ext |-> image_ext]

\* os.path.join(output_dir, f"{idx:04d}.{image_ext}")
OutPath(output_dir, n, image_ext) ==
    [dir |-> output_dir, stem |-> Format04d(n), ext |-> image_ext]

\* f"{seconds:06.3f}" of a number of seconds below 60 given in ticks: the
\* nearest multiple of 0.001, in thousandths; 59.9995 and more give 60000
Format063f(seconds) ==
    (seconds + (TicksPerSecond \div 1000) \div 2) \div (TicksPerSecond \div 1000)

\* hours = int(mid_sec // 3600); minutes = int((mid_sec % 3600) // 60);
\* seconds = mid_sec % 60; f"{hours:02d}:{minutes:02d}:{seconds:06.3f}"
FormatTimecode(mid_sec) ==
    LET hours == mid_sec \div (3600 * TicksPerSecond)
        minutes == (mid_sec % (3600 * TicksPerSecond)) \div (60 * TicksPerSecond)
        seconds == mid_sec % (60 * TicksPerSecond)
    IN  [hh |-> hours,
         mm |-> minutes,
         ss |-> Format063f(seconds) \div 1000,
         mmm |-> Format063f(seconds) % 1000]

\* FrameTimecode.get_seconds(): frame_num / framerate, in ticks
get_seconds(t) == t.frame * FrameDuration(t.fps)

\* the start of the scene taken for its mid point: a slip
MidSecOfStart(scene) == get_seconds(scene[1])

\* mid_sec = (start.get_seconds() + end.get_seconds()) / 2.0, in ticks
MidSec(scene) == (get_seconds(scene[1]) + get_seconds(scene[2])) \div 2

\* calculate_midframes: the timecode of the mid point of every scene, from seconds
calculate_midframes(scenes_) ==
    [k \in 1..Len(scenes_) |-> FormatTimecode(MidSec(scenes_[k]))]

\* the calls int(mid_sec * frame_rate) of this model whose float product falls
\* just below the whole number it stands for: in Python
\* (0 / 25.0 + 58 / 25.0) / 2.0 * 25.0 is 28.999999999999996, not 29.0.  For
\* every other scene and frame rate of the model the integer part of the
\* float product is the integer part of the exact product.
TruncatedProducts ==
    {<< <<FrameTimecode(0, Fps(25, 1)), FrameTimecode(58, Fps(25, 1))>>, Fps(25, 1) >>}

\* mid_frame = int(mid_sec * frame_rate)
MidFrame(scene, frame_rate) ==
    LET exact == MidSec(scene) \div FrameDuration(frame_rate)
    IN  IF <<scene, frame_rate>> \in TruncatedProducts THEN exact - 1 ELSE exact

\* calculate_midframes_logic: the timecode of frame int(mid_sec * frame_rate)
calculate_midframes_logic(scenes_, frame_rate) ==
    [k \in 1..Len(scenes_) |->
        FormatTimecode(get_seconds(FrameTimecode(MidFrame(scenes_[k], frame_rate),
                                                 frame_rate)))]

\* the detector built for an algorithm: window_width and min_content_val are
\* passed to AdaptiveDetector only
MakeDetector(algo, thresh, min_len, win, min_cont) ==
    IF algo = "adaptive"
    THEN [kind |-> algo, threshold |-> thresh, min_scene_len |-> min_len,
          window_width |-> {win}, min_content_val |-> {min_cont}]
    ELSE [kind |-> algo, threshold |-> thresh, min_scene_len |-> min_len,
          window_width |-> {}, min_content_val |-> {}]

\* os.path.exists(path) for a video path
PathExists(path) == path \in VideoPaths /\ VideoFiles[path].kind # "missing"

\* VideoManager([path]) succeeds
CanOpen(path) == path \in VideoPaths /\ VideoFiles[path].kind = "video"

---------------------------------------------------------------------------
(* Initial state: the state main(page) builds, or a fresh command line run *)

\* the frame rate assumed when none is known
FallbackFrameRate == 30

app_default_thresholds ==
    [a \in Algorithms |->
        CASE a = "adaptive"  -> "3.0"
          [] a = "content"   -> "27.0"
          [] a = "threshold" -> "12.0"
          [] a = "hist"      -> "0.40"]

NoArgs == [video_p |-> "", output_d |-> "", algo |-> "", thresh_val |-> 0,
           min_len_val |-> 0, win_size_val |-> 0, min_cont_val_val |-> 0,
           frame_rate |-> Fps(0, 1)]

\* no second click has been made
NoSecond == [pc |-> "none", args |-> NoArgs, midframes |-> <<>>, idx |-> 0,
             captures |-> <<>>]

Init ==
    /\ program \in {"cli", "gui"}
    /\ pc = IF program = "gui" THEN "idle" ELSE "cli_start"
    /\ selected_video_path_text = NoVideoText
    /\ selected_output_dir_text = DefaultOutputPath
    /\ algo_dropdown = "adaptive"
    /\ threshold_input = app_default_thresholds["adaptive"]
    /\ min_scene_len_input = "15"
    /\ window_size_input = "2"
    /\ min_content_val_input = "15.0"
    /\ settings_row2_adaptive = TRUE
    /\ status_text = Msg("Status:", "Idle", 0, NoTc)
    /\ progress_bar = FALSE
    /\ image_grid = <<>>
    /\ start_button = FALSE
    /\ client_storage = {}
    /\ dirs \in [DirPaths -> {"absent", "dir", "file"}]
    /\ dirs["/out/picked"] = "dir"
    /\ dirs[IF program = "gui" THEN "midframes" ELSE DefaultOutputPath] = "absent"
    /\ files = {}
    /\ settings_file = {}
    /\ args = NoArgs
    /\ via = "main"
    /\ video_manager = "none"
    /\ detector = {}
    /\ scenes = <<>>
    /\ midframes = <<>>
    /\ idx = 0
    /\ extracted_images_paths = <<>>
    /\ extraction_successful = FALSE
    /\ exc = "none"
    /\ captures = <<>>
    /\ console = <<>>
    /\ ui_writes = {}
    /\ created_dirs = {}
    /\ callbacks = <<>>
    /\ second = NoSecond

---------------------------------------------------------------------------
(* mv_scene_gui.py: the controls *)

\* the thread that executes the code at pc: Flet runs the event handlers, the
\* worker is the threading.Thread started by the click handler
CurrentThread ==
    IF pc \in {"idle", "h_settings", "h_disable", "h_parse"} THEN "ui" ELSE "worker"

\* the running thread assigns to properties of these controls
Touch(controls) == ui_writes' = ui_writes \cup {<<c, CurrentThread>> : c \in controls}

\* status_text.value = message; page_ref.update()
update_status_on_ui_thread(message) == status_text' = message

\* os.makedirs(path, exist_ok=True) succeeded: the directory is new if it was absent
Created(path) == IF dirs[path] = "absent" THEN created_dirs \cup {path} ELSE created_dirs

on_video_picked ==
    /\ program = "gui" /\ pc = "idle"
    /\ \E e \in VideoPaths \cup {"cancel"} :
         IF e \in VideoPaths
         THEN /\ selected_video_path_text' = e
              /\ client_storage' = IF CanOpen(e) THEN {VideoFiles[e].fps}
                                                 ELSE {Fps(FallbackFrameRate, 1)}
         ELSE /\ selected_video_path_text' = CancelledVideoText
              /\ UNCHANGED client_storage
    /\ UNCHANGED <<program, second, history, pc, selected_output_dir_text, algo_dropdown,
                   threshold_input, min_scene_len_input, window_size_input,
                   min_content_val_input, settings_row2_adaptive, ui_outputs, disk,
                   locals, captures, console>>

on_output_dir_picked ==
    /\ program = "gui" /\ pc = "idle"
    /\ \E e \in {"/out/picked", "cancel"} :
         selected_output_dir_text' = IF e = "cancel" THEN CancelledDirText ELSE e
    /\ UNCHANGED <<program, second, history, pc, selected_video_path_text, algo_dropdown,
                   threshold_input, min_scene_len_input, window_size_input,
                   min_content_val_input, settings_row2_adaptive, client_storage,
                   ui_outputs, disk, locals, captures, console>>

\* the user picks an algorithm: the dropdown takes the value, then the handler runs
algo_changed_handler ==
    /\ program = "gui" /\ pc = "idle"
    /\ \E algo_value \in Algorithms :
         /\ algo_dropdown' = algo_value
         /\ threshold_input' = app_default_thresholds[algo_value]
         /\ settings_row2_adaptive' = (algo_value = "adaptive")
    /\ UNCHANGED <<program, second, history, pc, selected_video_path_text,
                   selected_output_dir_text, min_scene_len_input, window_size_input,
                   min_content_val_input, client_storage, ui_outputs, disk, locals,
                   captures, console>>

\* the user types into one of the four numeric fields
TypeText ==
    /\ program = "gui" /\ pc = "idle"
    /\ \E f \in {"threshold", "min_scene_len", "window_size", "min_content_val"},
          t \in TypedTexts :
         /\ threshold_input' = IF f = "threshold" THEN t ELSE threshold_input
         /\ min_scene_len_input' = IF f = "min_scene_len" THEN t ELSE min_scene_len_input
         /\ window_size_input' = IF f = "window_size" THEN t ELSE window_size_input
         /\ min_content_val_input' =
                IF f = "min_content_val" THEN t ELSE min_content_val_input
    /\ UNCHANGED <<program, second, history, pc, selected_video_path_text,
                   selected_output_dir_text, algo_dropdown, settings_row2_adaptive,
                   client_storage, ui_outputs, disk, locals, captures, console>>

---------------------------------------------------------------------------
(* mv_scene_gui.py: start_extraction_button_click *)

\* lines 335-338, without the return: the handler would go on to the settings file
after_makedirs_error_no_return == "h_settings"

\* lines 335-338: except OSError reports the error and returns
after_makedirs_error == "h_returned"

\* line 322 without os.path.exists: only the placeholder text is refused
InvalidVideoPathUnchecked(vid_path) == vid_path = NoVideoText

\* line 322: not vid_path or vid_path == "No video selected yet." or
\* not os.path.exists(vid_path)
InvalidVideoPath(vid_path) == vid_path = NoVideoText \/ ~PathExists(vid_path)

\* lines 319-338: the checks of the video path and the output directory
click_validate ==
    /\ program = "gui" /\ pc = "idle" /\ ~start_button
    /\ LET vid_path == selected_video_path_text
           cancelled == selected_output_dir_text = CancelledDirText
           out_dir == IF cancelled THEN DefaultOutputPath ELSE selected_output_dir_text
       IN  IF InvalidVideoPath(vid_path)
           THEN /\ update_status_on_ui_thread(
                       Msg("Error:", "Please select a valid video file.", 0, NoTc))
                /\ Touch({"status_text"})
                /\ pc' = "h_returned"
                /\ UNCHANGED <<selected_output_dir_text, dirs, created_dirs, args>>
           ELSE /\ selected_output_dir_text' = out_dir
                /\ IF dirs[out_dir] = "file"
                   THEN /\ update_status_on_ui_thread(
                               Msg("Error creating output directory:", "OSError", 0, NoTc))
                        /\ Touch({"status_text"})
                        /\ args' = [NoArgs EXCEPT !.video_p = vid_path,
                                                  !.output_d = out_dir]
                        /\ pc' = after_makedirs_error
                        /\ UNCHANGED <<dirs, created_dirs>>
                   ELSE /\ dirs' = [dirs EXCEPT ![out_dir] = "dir"]
                        /\ created_dirs' = Created(out_dir)
                        /\ args' = [NoArgs EXCEPT !.video_p = vid_path,
                                                  !.output_d = out_dir]
                        /\ pc' = "h_settings"
                        /\ UNCHANGED <<status_text, ui_writes>>
    /\ UNCHANGED <<program, second, callbacks, selected_video_path_text, algo_dropdown,
                   threshold_input, min_scene_len_input, window_size_input,
                   min_content_val_input, settings_row2_adaptive, client_storage,
                   progress_bar, image_grid, start_button, files, settings_file, via,
                   video_manager, detector, scenes, midframes, idx,
                   extracted_images_paths, extraction_successful, exc, captures, console>>

\* the text written to extraction_settings.txt
settings_to_save ==
    [video |-> args.video_p, out |-> args.output_d, algo |-> algo_dropdown,
     threshold |-> threshold_input, min_scene_len |-> min_scene_len_input,
     adaptive |-> IF algo_dropdown = "adaptive"
                  THEN {<<window_size_input, min_content_val_input>>} ELSE {}]

\* lines 359-361 with a return: a failure to write the file would end the handler
after_settings_error_return == "h_returned"

\* lines 359-361: except Exception sets the warning and the handler goes on
after_settings_error == "h_disable"

\* lines 340-361: the settings file; a failure to write it is a warning
click_save_settings ==
    /\ program = "gui" /\ pc = "h_settings"
    /\ \E written \in BOOLEAN :
         /\ written => dirs[args.output_d] = "dir"
         /\ IF written
            THEN /\ settings_file' = {settings_to_save}
                 /\ update_status_on_ui_thread(Msg("Status:", "Settings saved", 0, NoTc))
            ELSE /\ UNCHANGED settings_file
                 /\ update_status_on_ui_thread(
                        Msg("Warning:", "Could not save settings file", 0, NoTc))
         /\ pc' = IF written THEN "h_disable" ELSE after_settings_error
    /\ Touch({"status_text"})
    /\ UNCHANGED <<program, second, history, ui_inputs, progress_bar, image_grid,
                   start_button, dirs, files, locals, captures, console>>

\* lines 363-367: the button is disabled, the progress bar shown, the grid cleared
click_disable ==
    /\ program = "gui" /\ pc = "h_disable"
    /\ start_button' = TRUE
    /\ progress_bar' = TRUE
    /\ image_grid' = <<>>
    /\ Touch({"start_button", "progress_bar", "image_grid"})
    /\ pc' = "h_parse"
    /\ UNCHANGED <<program, second, history, ui_inputs, status_text, disk, locals,
                   captures, console>>

\* lines 369-396: the numeric fields are parsed, then the worker thread is started
click_parse_and_start ==
    /\ program = "gui" /\ pc = "h_parse"
    /\ LET current_threshold == ParseFloat(threshold_input)
           current_min_scene_len == ParseInt(min_scene_len_input)
           current_window_size == ParseInt(window_size_input)
           current_min_content_val == ParseFloat(min_content_val_input)
       IN  IF /\ current_threshold.ok /\ current_min_scene_len.ok
              /\ current_window_size.ok /\ current_min_content_val.ok
           THEN /\ args' = [args EXCEPT !.algo = algo_dropdown,
                                        !.thresh_val = current_threshold.val,
                                        !.min_len_val = current_min_scene_len.val,
                                        !.win_size_val = current_window_size.val,
                                        !.min_cont_val_val = current_min_content_val.val]
                /\ pc' = "w_init"
                /\ UNCHANGED <<status_text, start_button, progress_bar, ui_writes>>
           ELSE /\ update_status_on_ui_thread(
                       Msg("Error:", "Invalid numeric input for parameters", 0, NoTc))
                /\ start_button' = FALSE
                /\ progress_bar' = FALSE
                /\ Touch({"status_text", "start_button", "progress_bar"})
                /\ pc' = "h_returned"
                /\ UNCHANGED args
    /\ UNCHANGED <<program, second, history, ui_inputs, image_grid, disk, via,
                   video_manager, detector, scenes, midframes, idx,
                   extracted_images_paths, extraction_successful, exc, captures, console>>

---------------------------------------------------------------------------
(* mv_scene_gui.py: run_extraction_thread_fn, the worker thread *)

\* lines 246-252: the frame rate is read, the video is opened
worker_init ==
    /\ program = "gui" /\ pc = "w_init"
    /\ args' = [args EXCEPT !.frame_rate =
                   IF client_storage = {} THEN Fps(FallbackFrameRate, 1)
                   ELSE CHOOSE r \in client_storage : TRUE]
    /\ extraction_successful' = FALSE
    /\ update_status_on_ui_thread(Msg("Status:", "Initializing video...", 0, NoTc))
    /\ Touch({"status_text"})
    /\ IF CanOpen(args.video_p)
       THEN video_manager' = "open" /\ pc' = "w_config" /\ UNCHANGED exc
       ELSE exc' = "VideoOpenFailure" /\ pc' = "w_except" /\ UNCHANGED video_manager
    /\ UNCHANGED <<program, second, history, ui_inputs, progress_bar, image_grid,
                   start_button, disk, via, detector, scenes, midframes, idx,
                   extracted_images_paths, captures, console>>

\* lines 254-267: the detector of the chosen algorithm is built
worker_configure ==
    /\ program = "gui" /\ pc = "w_config"
    /\ IF args.algo \in Algorithms
       THEN /\ update_status_on_ui_thread(
                   Msg("Status:", "Configuring detector...", 0, NoTc))
            /\ detector' = {MakeDetector(args.algo, args.thresh_val, args.min_len_val,
                                         args.win_size_val, args.min_cont_val_val)}
            /\ pc' = "w_start"
            /\ UNCHANGED exc
       ELSE /\ update_status_on_ui_thread(Msg("Error:", "Unknown algorithm", 0, NoTc))
            /\ exc' = "ValueError"
            /\ pc' = "w_except"
            /\ UNCHANGED detector
    /\ Touch({"status_text"})
    /\ UNCHANGED <<program, second, history, ui_inputs, progress_bar, image_grid,
                   start_button, disk, args, via, video_manager, scenes, midframes, idx,
                   extracted_images_paths, extraction_successful, captures, console>>

\* lines 269-270: video_manager.start()
worker_start_video ==
    /\ program = "gui" /\ pc = "w_start"
    /\ update_status_on_ui_thread(
           Msg("Status:", "Starting video processing for scene detection...", 0, NoTc))
    /\ Touch({"status_text"})
    /\ video_manager' = "started"
    /\ pc' = "w_detect"
    /\ UNCHANGED <<program, second, history, ui_inputs, progress_bar, image_grid,
                   start_button, disk, args, via, detector, scenes, midframes, idx,
                   extracted_images_paths, extraction_successful, exc, captures, console>>

\* lines 272-276: the detection pass; it returns a scene list or raises
worker_detect ==
    /\ program = "gui" /\ pc = "w_detect"
    /\ \/ \E scene_list \in SceneLists(args.video_p) :
            /\ scenes' = scene_list
            /\ IF Len(scene_list) > 1
               THEN /\ update_status_on_ui_thread(
                          Msg("Status:", "Scene detected at frame",
                              scene_list[Len(scene_list)][1].frame, NoTc))
                    /\ Touch({"status_text"})
               ELSE UNCHANGED <<status_text, ui_writes>>
            /\ pc' = "w_mid"
            /\ UNCHANGED exc
       \/ /\ exc' = "DecodeError"
          /\ pc' = "w_except"
          /\ UNCHANGED <<scenes, status_text, ui_writes>>
    /\ UNCHANGED <<program, second, history, ui_inputs, progress_bar, image_grid,
                   start_button, disk, args, via, video_manager, detector, midframes, idx,
                   extracted_images_paths, extraction_successful, captures, console>>

\* line 284 left out: the video would stay open during the extraction
after_release_missing == "started"

\* line 284: video_manager.release()
after_release == "released"

\* lines 278-290: no scenes ends the run; otherwise the mid frames are computed
\* and the video is released
worker_midframes ==
    /\ program = "gui" /\ pc = "w_mid"
    /\ Touch({"status_text"})
    /\ IF scenes = <<>>
       THEN /\ update_status_on_ui_thread(Msg("Status:", "No scenes detected.", 0, NoTc))
            /\ pc' = "w_finally"
            /\ UNCHANGED <<midframes, video_manager>>
       ELSE LET midframe_timecodes_str == calculate_midframes_logic(scenes, args.frame_rate)
            IN  /\ midframes' = midframe_timecodes_str
                /\ video_manager' = after_release
                /\ IF midframe_timecodes_str = <<>>
                   THEN /\ update_status_on_ui_thread(
                               Msg("Status:", "No midframes to extract.", 0, NoTc))
                        /\ pc' = "w_finally"
                   ELSE /\ update_status_on_ui_thread(
                               Msg("Status:", "Extracting images to",
                                   Len(midframe_timecodes_str), NoTc))
                        /\ pc' = "x_mkdir"
    /\ UNCHANGED <<program, second, history, ui_inputs, progress_bar, image_grid,
                   start_button, disk, args, via, detector, scenes, idx,
                   extracted_images_paths, extraction_successful, exc, captures, console>>

---------------------------------------------------------------------------
(* mv_scene_gui.py: extract_frames_logic, called by the worker *)

\* the stderr of a failed ffmpeg: nothing, text, or bytes that are not UTF-8
StderrKinds == {"empty", "text", "bytes"}

\* one call of an observer of extract_frames_logic: the function called, what
\* the message says, and the index, the total, the timecode and the path that
\* the argument carries (each a set: empty when the argument does not hold it)
Callback(fn, what, index, total, tc, path) ==
    [fn |-> fn, what |-> what, index |-> index, total |-> total, tc |-> tc,
     path |-> path]

\* one invocation of ffmpeg: -ss tc -i video ... out_path
Capture(k, tc, video, out_path, result) ==
    [k |-> k, tc |-> tc, video |-> video, out |-> out_path, result |-> result]

\* the log with the result of the invocation in flight filled in
Finished(log, result) == [log EXCEPT ![Len(log)].result = result]

\* lines 70-71: os.makedirs(output_dir, exist_ok=True)
extract_frames_logic_makedirs ==
    /\ program = "gui" /\ pc = "x_mkdir"
    /\ IF dirs[args.output_d] = "file"
       THEN /\ exc' = "OSError"
            /\ pc' = "w_except"
            /\ UNCHANGED <<dirs, created_dirs, idx, extracted_images_paths>>
       ELSE /\ dirs' = [dirs EXCEPT ![args.output_d] = "dir"]
            /\ created_dirs' = Created(args.output_d)
            /\ extracted_images_paths' = <<>>
            /\ idx' = 1
            /\ pc' = IF midframes = <<>> THEN "w_complete" ELSE "x_spawn"
            /\ UNCHANGED exc
    /\ UNCHANGED <<program, second, callbacks, ui_inputs, ui_outputs, files,
                   settings_file, args, via, video_manager, detector, scenes, midframes,
                   extraction_successful, captures, console>>

\* the index of f"Extracting frame {idx}/{len(midframe_timecodes)}: {tc_str}",
\* had the loop counted from 0
StatusIndexZeroBased(i) == i - 1

\* the index of f"Extracting frame {idx}/{len(midframe_timecodes)}: {tc_str}":
\* the loop variable of enumerate(midframe_timecodes, start=1)
StatusIndex(i) == i

\* lines 92-96, without the raise: the loop would go on like after a failed ffmpeg
after_file_not_found_no_raise == IF idx < Len(midframes) THEN "x_spawn" ELSE "w_complete"

\* lines 92-97: except FileNotFoundError reports and re-raises; the except clause
\* of run_extraction_thread_fn catches it
after_file_not_found == "w_except"

\* lines 72-81 and 92-97: the status before the item, then ffmpeg is started; a
\* missing ffmpeg binary is reported and re-raised
extract_frames_logic_spawn ==
    /\ program = "gui" /\ pc = "x_spawn"
    /\ LET tc_str == midframes[idx]
           out_path == OutPath(args.output_d, idx, "jpg")
           before == Callback("status_callback", "Extracting frame", {StatusIndex(idx)},
                              {Len(midframes)}, {tc_str}, {})
       IN  \E found \in BOOLEAN :
             IF found
             THEN /\ captures' = Append(captures,
                                   Capture(idx, tc_str, args.video_p, out_path, "running"))
                  /\ callbacks' = Append(callbacks, before)
                  /\ update_status_on_ui_thread(
                         Msg("Status:", "Extracting frame", idx, {tc_str}))
                  /\ pc' = "x_wait"
                  /\ UNCHANGED <<exc, console>>
             ELSE /\ captures' = Append(captures,
                                   Capture(idx, tc_str, args.video_p, out_path, "notfound"))
                  /\ callbacks' = callbacks \o
                        <<before, Callback("status_callback", "ffmpeg command not found.",
                                           {}, {}, {}, {})>>
                  /\ update_status_on_ui_thread(
                         Msg("ffmpeg command not found.", "", 0, NoTc))
                  /\ console' = Append(console,
                                       Msg("ffmpeg command not found.", "", 0, NoTc))
                  /\ exc' = "FileNotFoundError"
                  /\ pc' = after_file_not_found
    /\ Touch({"status_text"})
    /\ UNCHANGED <<program, second, created_dirs, ui_inputs, progress_bar, image_grid,
                   start_button, disk, args, via, video_manager, detector, scenes,
                   midframes, idx, extracted_images_paths, extraction_successful>>

\* lines 78-91: ffmpeg exits; a nonzero exit is reported with its decoded stderr
\* and the loop goes on
extract_frames_logic_wait ==
    /\ program = "gui" /\ pc = "x_wait"
    /\ LET tc_str == midframes[idx]
           out_path == OutPath(args.output_d, idx, "jpg")
           next_pc == IF idx < Len(midframes) THEN "x_spawn" ELSE "w_complete"
       IN  \/ /\ captures' = Finished(captures, "ok")
              /\ files' = files \cup {out_path}
              /\ extracted_images_paths' = Append(extracted_images_paths, out_path)
              /\ callbacks' = Append(callbacks,
                                     Callback("image_callback", "", {}, {}, {}, {out_path}))
              /\ image_grid' = Append(image_grid, out_path)
              /\ Touch({"image_grid"})
              /\ idx' = idx + 1
              /\ pc' = next_pc
              /\ UNCHANGED <<status_text, console, exc>>
           \/ \E stderr \in StderrKinds :
                /\ captures' = Finished(captures, "failed")
                /\ IF stderr = "bytes"
                   THEN /\ exc' = "UnicodeDecodeError"
                        /\ pc' = "w_except"
                        /\ UNCHANGED <<status_text, ui_writes, console, idx, callbacks>>
                   ELSE LET error_message ==
                                Msg("ffmpeg error", IF stderr = "empty"
                                                    THEN "Unknown error" ELSE "stderr",
                                    0, {tc_str})
                        IN  /\ update_status_on_ui_thread(error_message)
                            /\ callbacks' = Append(callbacks,
                                   Callback("status_callback", "ffmpeg error", {}, {},
                                            {tc_str}, {}))
                            /\ Touch({"status_text"})
                            /\ console' = Append(console, error_message)
                            /\ idx' = idx + 1
                            /\ pc' = next_pc
                            /\ UNCHANGED exc
                /\ UNCHANGED <<files, extracted_images_paths, image_grid>>
    /\ UNCHANGED <<program, second, created_dirs, ui_inputs, progress_bar, start_button,
                   dirs, settings_file, args, via, video_manager, detector, scenes,
                   midframes, extraction_successful>>

---------------------------------------------------------------------------
(* mv_scene_gui.py: the end of run_extraction_thread_fn *)

\* lines 297-298
worker_complete ==
    /\ program = "gui" /\ pc = "w_complete"
    /\ update_status_on_ui_thread(
           Msg("Status:", "Extraction complete!", Len(midframes), NoTc))
    /\ Touch({"status_text"})
    /\ extraction_successful' = TRUE
    /\ pc' = "w_finally"
    /\ UNCHANGED <<program, second, history, ui_inputs, progress_bar, image_grid,
                   start_button, disk, args, via, video_manager, detector, scenes,
                   midframes, idx, extracted_images_paths, exc, captures, console>>

\* lines 300-303: except Exception
worker_except ==
    /\ program = "gui" /\ pc = "w_except"
    /\ console' = Append(console, Msg("Error during extraction:", exc, 0, NoTc))
    /\ update_status_on_ui_thread(Msg("Error during extraction:", exc, 0, NoTc))
    /\ Touch({"status_text"})
    /\ pc' = "w_finally"
    /\ UNCHANGED <<program, second, history, ui_inputs, progress_bar, image_grid,
                   start_button, disk, locals, captures>>

\* line 305 left out: the button would stay disabled after the run
start_button_left_disabled == TRUE

\* line 305: start_button.disabled = False
start_button_after_run == FALSE

\* lines 304-316: finally
worker_finally ==
    /\ program = "gui" /\ pc = "w_finally"
    /\ start_button' = start_button_after_run
    /\ progress_bar' = FALSE
    /\ IF extraction_successful
       THEN /\ update_status_on_ui_thread(
                   Msg("Status:", "Successfully extracted", Len(image_grid), NoTc))
            /\ Touch({"start_button", "progress_bar", "status_text"})
       ELSE IF ~(StartsWith(status_text, "Error:") \/ StartsWith(status_text, "ffmpeg error"))
            THEN /\ update_status_on_ui_thread(
                        Msg("Status:", "Extraction failed or was interrupted.", 0, NoTc))
                 /\ Touch({"start_button", "progress_bar", "status_text"})
            ELSE /\ UNCHANGED status_text
                 /\ Touch({"start_button", "progress_bar"})
    /\ pc' = "w_done"
    /\ UNCHANGED <<program, second, history, ui_inputs, image_grid, disk, locals,
                   captures, console>>

---------------------------------------------------------------------------
(* mv_scene_gui.py: a second click on "Start Extraction".  The client shows  *)
(* the button enabled until the page.update() of line 367 of the first       *)
(* handler; a click made until then is delivered to the program.  Its        *)
(* handler runs when the first handler has returned, and nothing in it asks  *)
(* whether a worker is running.  The handler and the worker of the second    *)
(* click are the code of the first, taken in larger steps.                   *)

\* the worker thread of the second click assigns to properties of these controls
TouchSecond(controls, thread) ==
    ui_writes' = ui_writes \cup {<<c, thread>> : c \in controls}

\* the user clicks the button again while the client still shows it enabled
second_click_delivered ==
    /\ program = "gui" /\ pc \in {"h_settings", "h_disable"} /\ ~start_button
    /\ second.pc = "none"
    /\ second' = [second EXCEPT !.pc = "h_click"]
    /\ UNCHANGED <<program, pc, ui_inputs, ui_outputs, disk, locals, captures, console,
                   history>>

\* lines 319-396 for the second click: the whole handler
second_click_handler ==
    /\ program = "gui" /\ second.pc = "h_click"
    /\ pc \notin {"idle", "h_settings", "h_disable", "h_parse"}
    /\ LET vid_path == selected_video_path_text
           cancelled == selected_output_dir_text = CancelledDirText
           out_dir == IF cancelled THEN DefaultOutputPath ELSE selected_output_dir_text
           current_threshold == ParseFloat(threshold_input)
           current_min_scene_len == ParseInt(min_scene_len_input)
           current_window_size == ParseInt(window_size_input)
           current_min_content_val == ParseFloat(min_content_val_input)
       IN  IF InvalidVideoPath(vid_path)
           THEN /\ update_status_on_ui_thread(
                       Msg("Error:", "Please select a valid video file.", 0, NoTc))
                /\ TouchSecond({"status_text"}, "ui")
                /\ second' = [second EXCEPT !.pc = "h_returned"]
                /\ UNCHANGED <<selected_output_dir_text, dirs, created_dirs, settings_file,
                               start_button, progress_bar, image_grid>>
           ELSE IF dirs[out_dir] = "file"
           THEN /\ selected_output_dir_text' = out_dir
                /\ update_status_on_ui_thread(
                       Msg("Error creating output directory:", "OSError", 0, NoTc))
                /\ TouchSecond({"status_text"}, "ui")
                /\ second' = [second EXCEPT !.pc = "h_returned"]
                /\ UNCHANGED <<dirs, created_dirs, settings_file, start_button,
                               progress_bar, image_grid>>
           ELSE \E written \in BOOLEAN :
                /\ selected_output_dir_text' = out_dir
                /\ dirs' = [dirs EXCEPT ![out_dir] = "dir"]
                /\ created_dirs' = Created(out_dir)
                /\ settings_file' =
                       IF written
                       THEN {[settings_to_save EXCEPT !.video = vid_path, !.out = out_dir]}
                       ELSE settings_file
                /\ image_grid' = <<>>
                /\ IF /\ current_threshold.ok /\ current_min_scene_len.ok
                      /\ current_window_size.ok /\ current_min_content_val.ok
                   THEN /\ update_status_on_ui_thread(
                               IF written
                               THEN Msg("Status:", "Settings saved", 0, NoTc)
                               ELSE Msg("Warning:", "Could not save settings file", 0, NoTc))
                        /\ start_button' = TRUE
                        /\ progress_bar' = TRUE
                        /\ TouchSecond({"status_text", "start_button", "progress_bar",
                                        "image_grid"}, "ui")
                        /\ second' = [second EXCEPT
                              !.pc = "w_run",
                              !.args = [video_p |-> vid_path, output_d |-> out_dir,
                                        algo |-> algo_dropdown,
                                        thresh_val |-> current_threshold.val,
                                        min_len_val |-> current_min_scene_len.val,
                                        win_size_val |-> current_window_size.val,
                                        min_cont_val_val |-> current_min_content_val.val,
                                        frame_rate |-> Fps(0, 1)]]
                   ELSE /\ update_status_on_ui_thread(
                               Msg("Error:", "Invalid numeric input for parameters", 0, NoTc))
                        /\ start_button' = FALSE
                        /\ progress_bar' = FALSE
                        /\ TouchSecond({"status_text", "start_button", "progress_bar",
                                        "image_grid"}, "ui")
                        /\ second' = [second EXCEPT !.pc = "h_returned"]
    /\ UNCHANGED <<program, pc, selected_video_path_text, algo_dropdown, threshold_input,
                   min_scene_len_input, window_size_input, min_content_val_input,
                   settings_row2_adaptive, client_storage, files, locals, captures,
                   console, callbacks>>

\* lines 300-316 for the second worker: the exception is printed and shown, then
\* the finally clause enables the button and replaces the status, which does
\* not start with "Error:"
SecondRaises(exception) ==
    /\ console' = Append(console, Msg("Error during extraction:", exception, 0, NoTc))
    /\ update_status_on_ui_thread(
           Msg("Status:", "Extraction failed or was interrupted.", 0, NoTc))
    /\ start_button' = FALSE
    /\ progress_bar' = FALSE
    /\ TouchSecond({"status_text", "start_button", "progress_bar"}, "worker")

\* lines 246-290 and 70-71 for the second worker: the video is opened, the
\* scenes are detected, the mid frames computed, the output directory made
second_worker_detect ==
    /\ program = "gui" /\ second.pc = "w_run"
    /\ LET frame_rate == IF client_storage = {} THEN Fps(FallbackFrameRate, 1)
                         ELSE CHOOSE r \in client_storage : TRUE
           out_dir == second.args.output_d
       IN  \E raised \in BOOLEAN, scene_list \in SceneLists(second.args.video_p) :
             /\ raised => scene_list = <<>>
             /\ ~CanOpen(second.args.video_p) => raised
             /\ IF raised \/ (scene_list # <<>> /\ dirs[out_dir] = "file")
                THEN /\ SecondRaises(IF ~CanOpen(second.args.video_p)
                                     THEN "VideoOpenFailure"
                                     ELSE IF raised THEN "DecodeError" ELSE "OSError")
                     /\ second' = [second EXCEPT !.pc = "w_done"]
                     /\ UNCHANGED <<dirs, created_dirs>>
                ELSE IF scene_list = <<>>
                THEN /\ update_status_on_ui_thread(
                            Msg("Status:", "Extraction failed or was interrupted.", 0, NoTc))
                     /\ start_button' = FALSE
                     /\ progress_bar' = FALSE
                     /\ TouchSecond({"status_text", "start_button", "progress_bar"},
                                    "worker")
                     /\ second' = [second EXCEPT !.pc = "w_done"]
                     /\ UNCHANGED <<dirs, created_dirs, console>>
                ELSE /\ update_status_on_ui_thread(
                            Msg("Status:", "Extracting images to", Len(scene_list), NoTc))
                     /\ TouchSecond({"status_text"}, "worker")
                     /\ dirs' = [dirs EXCEPT ![out_dir] = "dir"]
                     /\ created_dirs' = Created(out_dir)
                     /\ second' = [second EXCEPT
                           !.pc = "x_spawn",
                           !.args = [second.args EXCEPT !.frame_rate = frame_rate],
                           !.midframes = calculate_midframes_logic(scene_list, frame_rate),
                           !.idx = 1]
                     /\ UNCHANGED <<start_button, progress_bar, console>>
    /\ UNCHANGED <<program, pc, ui_inputs, image_grid, files, settings_file, locals,
                   captures, callbacks>>

\* lines 72-81 and 92-97 for the second worker: the status before the item, then
\* ffmpeg is started; a missing binary ends the worker
second_worker_spawn ==
    /\ program = "gui" /\ second.pc = "x_spawn"
    /\ LET tc_str == second.midframes[second.idx]
           out_path == OutPath(second.args.output_d, second.idx, "jpg")
       IN  \E found \in BOOLEAN :
             IF found
             THEN /\ second' = [second EXCEPT
                        !.pc = "x_wait",
                        !.captures = Append(@, Capture(second.idx, tc_str,
                                                       second.args.video_p, out_path,
                                                       "running"))]
                  /\ update_status_on_ui_thread(
                         Msg("Status:", "Extracting frame", second.idx, {tc_str}))
                  /\ TouchSecond({"status_text"}, "worker")
                  /\ UNCHANGED <<console, start_button, progress_bar>>
             ELSE /\ second' = [second EXCEPT
                        !.pc = "w_done",
                        !.captures = Append(@, Capture(second.idx, tc_str,
                                                       second.args.video_p, out_path,
                                                       "notfound"))]
                  /\ console' = console \o
                        <<Msg("ffmpeg command not found.", "", 0, NoTc),
                          Msg("Error during extraction:", "FileNotFoundError", 0, NoTc)>>
                  /\ update_status_on_ui_thread(
                         Msg("Status:", "Extraction failed or was interrupted.", 0, NoTc))
                  /\ start_button' = FALSE
                  /\ progress_bar' = FALSE
                  /\ TouchSecond({"status_text", "start_button", "progress_bar"}, "worker")
    /\ UNCHANGED <<program, pc, ui_inputs, image_grid, disk, locals, captures, history>>

\* lines 78-91 for the second worker, and lines 297-316 after the last item
second_worker_wait ==
    /\ program = "gui" /\ second.pc = "x_wait"
    /\ LET tc_str == second.midframes[second.idx]
           out_path == OutPath(second.args.output_d, second.idx, "jpg")
           last == second.idx = Len(second.midframes)
           next_pc == IF last THEN "w_done" ELSE "x_spawn"
       IN  \E result \in {"ok", "failed"}, stderr \in StderrKinds :
             /\ result = "ok" => stderr = "empty"
             /\ files' = IF result = "ok" THEN files \cup {out_path} ELSE files
             /\ image_grid' = IF result = "ok" THEN Append(image_grid, out_path)
                              ELSE image_grid
             /\ IF result = "failed" /\ stderr = "bytes"
                THEN /\ SecondRaises("UnicodeDecodeError")
                     /\ second' = [second EXCEPT
                           !.pc = "w_done", !.captures = Finished(@, result)]
                ELSE /\ second' = [second EXCEPT
                           !.pc = next_pc, !.idx = @ + 1,
                           !.captures = Finished(@, result)]
                     /\ console' =
                           IF result = "failed"
                           THEN Append(console,
                                       Msg("ffmpeg error",
                                           IF stderr = "empty" THEN "Unknown error"
                                           ELSE "stderr", 0, {tc_str}))
                           ELSE console
                     /\ IF last
                        THEN /\ update_status_on_ui_thread(
                                    Msg("Status:", "Successfully extracted",
                                        Len(image_grid'), NoTc))
                             /\ start_button' = FALSE
                             /\ progress_bar' = FALSE
                             /\ TouchSecond({"status_text", "start_button",
                                             "progress_bar", "image_grid"}, "worker")
                        ELSE /\ status_text' =
                                   IF result = "failed"
                                   THEN Msg("ffmpeg error",
                                            IF stderr = "empty" THEN "Unknown error"
                                            ELSE "stderr", 0, {tc_str})
                                   ELSE status_text
                             /\ TouchSecond({"status_text", "image_grid"}, "worker")
                             /\ UNCHANGED <<start_button, progress_bar>>
    /\ UNCHANGED <<program, pc, ui_inputs, dirs, settings_file, locals, captures,
                   history>>

---------------------------------------------------------------------------
(* mv_scene_extractor.py *)

\* the argparse defaults of --threshold, --min-scene-len, --window-size and
\* --min-content-val (the float values in hundredths)
DefaultThreshold == 300
DefaultMinSceneLen == 15
DefaultWindowSize == 2
DefaultMinContentVal == 1500

CliArgs(video, algorithm, output) ==
    [video_p |-> video, output_d |-> output, algo |-> algorithm,
     thresh_val |-> DefaultThreshold, min_len_val |-> DefaultMinSceneLen,
     win_size_val |-> DefaultWindowSize, min_cont_val_val |-> DefaultMinContentVal,
     frame_rate |-> Fps(0, 1)]

\* lines 66-97: main() parses the command line; argparse rejects an algorithm
\* that is not one of the choices
main_parse_args ==
    /\ program = "cli" /\ pc = "cli_start"
    /\ \E video \in VideoPaths, algorithm \in AlgoInputs, output \in {"midframes", "/out/picked"} :
         /\ args' = CliArgs(video, algorithm, output)
         /\ pc' = IF algorithm \in Algorithms THEN "d_open" ELSE "cli_usage_error"
    /\ via' = "main"
    /\ UNCHANGED <<program, second, history, ui_inputs, ui_outputs, disk, video_manager,
                   detector, scenes, midframes, idx, extracted_images_paths,
                   extraction_successful, exc, captures, console>>

\* detect_scenes(video_path, algorithm) called by a program that imports the module
detect_scenes_call ==
    /\ program = "cli" /\ pc = "cli_start"
    /\ \E video \in VideoPaths, algorithm \in AlgoInputs :
         args' = CliArgs(video, algorithm, "midframes")
    /\ via' = "call"
    /\ pc' = "d_open"
    /\ UNCHANGED <<program, second, history, ui_inputs, ui_outputs, disk, video_manager,
                   detector, scenes, midframes, idx, extracted_images_paths,
                   extraction_successful, exc, captures, console>>

\* lines 16-17: VideoManager([video_path])
detect_scenes_open ==
    /\ program = "cli" /\ pc = "d_open"
    /\ IF CanOpen(args.video_p)
       THEN video_manager' = "open" /\ pc' = "d_config" /\ UNCHANGED exc
       ELSE exc' = "VideoOpenFailure" /\ pc' = "cli_raised" /\ UNCHANGED video_manager
    /\ UNCHANGED <<program, second, history, ui_inputs, ui_outputs, disk, args, via,
                   detector, scenes, midframes, idx, extracted_images_paths,
                   extraction_successful, captures, console>>

\* lines 19-34: the detector of the algorithm, or ValueError
detect_scenes_configure ==
    /\ program = "cli" /\ pc = "d_config"
    /\ IF args.algo \in Algorithms
       THEN /\ detector' = {MakeDetector(args.algo, args.thresh_val, args.min_len_val,
                                         args.win_size_val, args.min_cont_val_val)}
            /\ pc' = "d_start"
            /\ UNCHANGED exc
       ELSE /\ exc' = "ValueError"
            /\ pc' = "cli_raised"
            /\ UNCHANGED detector
    /\ UNCHANGED <<program, second, history, ui_inputs, ui_outputs, disk, args, via,
                   video_manager, scenes, midframes, idx, extracted_images_paths,
                   extraction_successful, captures, console>>

\* line 35: video_manager.start()
detect_scenes_start ==
    /\ program = "cli" /\ pc = "d_start"
    /\ video_manager' = "started"
    /\ pc' = "d_detect"
    /\ UNCHANGED <<program, second, history, ui_inputs, ui_outputs, disk, args, via,
                   detector, scenes, midframes, idx, extracted_images_paths,
                   extraction_successful, exc, captures, console>>

\* lines 36-37: the detection pass; it returns a scene list or raises
detect_scenes_detect ==
    /\ program = "cli" /\ pc = "d_detect"
    /\ \/ \E scene_list \in SceneLists(args.video_p) :
            scenes' = scene_list /\ pc' = "d_release" /\ UNCHANGED exc
       \/ exc' = "DecodeError" /\ pc' = "cli_raised" /\ UNCHANGED scenes
    /\ UNCHANGED <<program, second, history, ui_inputs, ui_outputs, disk, args, via,
                   video_manager, detector, midframes, idx, extracted_images_paths,
                   extraction_successful, captures, console>>

\* lines 38-39: video_manager.release(); return scene_list
detect_scenes_release ==
    /\ program = "cli" /\ pc = "d_release"
    /\ video_manager' = "released"
    /\ pc' = IF via = "main" THEN "cli_mid" ELSE "cli_returned"
    /\ UNCHANGED <<program, second, history, ui_inputs, ui_outputs, disk, args, via,
                   detector, scenes, midframes, idx, extracted_images_paths,
                   extraction_successful, exc, captures, console>>

\* line 107: midframes = calculate_midframes(scenes)
main_midframes ==
    /\ program = "cli" /\ pc = "cli_mid"
    /\ midframes' = calculate_midframes(scenes)
    /\ pc' = "e_mkdir"
    /\ UNCHANGED <<program, second, history, ui_inputs, ui_outputs, disk, args, via,
                   video_manager, detector, scenes, idx, extracted_images_paths,
                   extraction_successful, exc, captures, console>>

\* line 57: os.makedirs(output_dir, exist_ok=True); nothing catches its OSError
extract_frames_makedirs ==
    /\ program = "cli" /\ pc = "e_mkdir"
    /\ IF dirs[args.output_d] = "file"
       THEN /\ exc' = "OSError"
            /\ pc' = "cli_raised"
            /\ UNCHANGED <<dirs, created_dirs, idx>>
       ELSE /\ dirs' = [dirs EXCEPT ![args.output_d] = "dir"]
            /\ created_dirs' = Created(args.output_d)
            /\ idx' = 1
            /\ pc' = IF midframes = <<>> THEN "cli_summary" ELSE "e_spawn"
            /\ UNCHANGED exc
    /\ UNCHANGED <<program, second, callbacks, ui_inputs, ui_outputs, files,
                   settings_file, args, via, video_manager, detector, scenes, midframes,
                   extracted_images_paths, extraction_successful, captures, console>>

\* lines 58-63: subprocess.run starts ffmpeg; nothing catches FileNotFoundError
extract_frames_spawn ==
    /\ program = "cli" /\ pc = "e_spawn"
    /\ LET tc == midframes[idx]
           out_path == OutPath(args.output_d, idx, "jpg")
       IN  \E found \in BOOLEAN :
             IF found
             THEN /\ captures' = Append(captures,
                                   Capture(idx, tc, args.video_p, out_path, "running"))
                  /\ pc' = "e_wait"
                  /\ UNCHANGED exc
             ELSE /\ captures' = Append(captures,
                                   Capture(idx, tc, args.video_p, out_path, "notfound"))
                  /\ exc' = "FileNotFoundError"
                  /\ pc' = "cli_raised"
    /\ UNCHANGED <<program, second, history, ui_inputs, ui_outputs, disk, args, via,
                   video_manager, detector, scenes, midframes, idx,
                   extracted_images_paths, extraction_successful, console>>

\* lines 60-63: ffmpeg exits; the exit status is not looked at and stderr is
\* discarded
extract_frames_wait ==
    /\ program = "cli" /\ pc = "e_wait"
    /\ \E result \in {"ok", "failed"} :
         /\ captures' = Finished(captures, result)
         /\ files' = IF result = "ok"
                     THEN files \cup {OutPath(args.output_d, idx, "jpg")} ELSE files
    /\ idx' = idx + 1
    /\ pc' = IF idx < Len(midframes) THEN "e_spawn" ELSE "cli_summary"
    /\ UNCHANGED <<program, second, history, ui_inputs, ui_outputs, dirs, settings_file,
                   args, via, video_manager, detector, scenes, midframes,
                   extracted_images_paths, extraction_successful, exc, console>>

\* lines 110-111: the two lines of the summary
main_summary ==
    /\ program = "cli" /\ pc = "cli_summary"
    /\ console' = console \o <<Msg("Detected", "scenes.", Len(scenes), NoTc),
                               Msg("Extracted", "images to", Len(midframes), NoTc)>>
    /\ pc' = "cli_exit"
    /\ UNCHANGED <<program, second, history, ui_inputs, ui_outputs, disk, locals, captures>>

---------------------------------------------------------------------------
(* calculate_midframes and calculate_midframes_logic called on their own *)

\* a program that imports the two modules and holds a scene list
InitCall ==
    /\ program = "call"
    /\ pc = "m_call"
    /\ selected_video_path_text = NoVideoText
    /\ selected_output_dir_text = DefaultOutputPath
    /\ algo_dropdown = "adaptive"
    /\ threshold_input = app_default_thresholds["adaptive"]
    /\ min_scene_len_input = "15"
    /\ window_size_input = "2"
    /\ min_content_val_input = "15.0"
    /\ settings_row2_adaptive = TRUE
    /\ status_text = Msg("Status:", "Idle", 0, NoTc)
    /\ progress_bar = FALSE
    /\ image_grid = <<>>
    /\ start_button = FALSE
    /\ client_storage = {}
    /\ dirs = [p \in DirPaths |-> IF p = "/out/picked" THEN "dir" ELSE "absent"]
    /\ files = {}
    /\ settings_file = {}
    /\ \E frame_rate \in CallFps : args = [NoArgs EXCEPT !.frame_rate = frame_rate]
    /\ via = "main"
    /\ video_manager = "none"
    /\ detector = {}
    /\ scenes \in CallSceneLists
    /\ midframes = <<>>
    /\ idx = 0
    /\ extracted_images_paths = <<>>
    /\ extraction_successful = FALSE
    /\ exc = "none"
    /\ captures = <<>>
    /\ console = <<>>
    /\ ui_writes = {}
    /\ created_dirs = {}
    /\ callbacks = <<>>
    /\ second = NoSecond

\* mv_scene_extractor.py, lines 42-52: calculate_midframes(scenes)
calculate_midframes_call ==
    /\ program = "call" /\ pc = "m_call"
    /\ midframes' = calculate_midframes(scenes)
    /\ via' = "calculate_midframes"
    /\ pc' = "m_returned"
    /\ UNCHANGED <<program, second, history, ui_inputs, ui_outputs, disk, args,
                   video_manager, detector, scenes, idx, extracted_images_paths,
                   extraction_successful, exc, captures, console>>

\* mv_scene_gui.py, lines 40-66: calculate_midframes_logic(scenes, frame_rate)
calculate_midframes_logic_call ==
    /\ program = "call" /\ pc = "m_call"
    /\ midframes' = calculate_midframes_logic(scenes, args.frame_rate)
    /\ via' = "calculate_midframes_logic"
    /\ pc' = "m_returned"
    /\ UNCHANGED <<program, second, history, ui_inputs, ui_outputs, disk, args,
                   video_manager, detector, scenes, idx, extracted_images_paths,
                   extraction_successful, exc, captures, console>>

NextCall == calculate_midframes_call \/ calculate_midframes_logic_call

SpecCall == InitCall /\ [][NextCall]_vars

---------------------------------------------------------------------------
(* The environment *)

\* while the detection pass of the GUI runs, the output directory is removed
\* and a file takes its name
output_dir_replaced ==
    /\ program = "gui" /\ pc = "w_detect"
    /\ dirs[args.output_d] = "dir"
    /\ dirs' = [dirs EXCEPT ![args.output_d] = "file"]
    /\ settings_file' = {}
    /\ UNCHANGED <<program, second, history, pc, ui_inputs, ui_outputs, files, locals,
                   captures, console>>

---------------------------------------------------------------------------
(* The specification *)

Next ==
    \/ on_video_picked
    \/ on_output_dir_picked
    \/ algo_changed_handler
    \/ TypeText
    \/ click_validate
    \/ click_save_settings
    \/ click_disable
    \/ click_parse_and_start
    \/ worker_init
    \/ worker_configure
    \/ worker_start_video
    \/ worker_detect
    \/ worker_midframes
    \/ extract_frames_logic_makedirs
    \/ extract_frames_logic_spawn
    \/ extract_frames_logic_wait
    \/ worker_complete
    \/ worker_except
    \/ worker_finally
    \/ main_parse_args
    \/ detect_scenes_call
    \/ detect_scenes_open
    \/ detect_scenes_configure
    \/ detect_scenes_start
    \/ detect_scenes_detect
    \/ detect_scenes_release
    \/ main_midframes
    \/ extract_frames_makedirs
    \/ extract_frames_spawn
    \/ extract_frames_wait
    \/ main_summary
    \/ output_dir_replaced

Spec == Init /\ [][Next]_vars

\* what the program does by itself once the button is disabled: the rest of the
\* click handler and the worker thread, with the calls it makes
RunSteps ==
    \/ click_parse_and_start
    \/ worker_init
    \/ worker_configure
    \/ worker_start_video
    \/ worker_detect
    \/ worker_midframes
    \/ extract_frames_logic_makedirs
    \/ extract_frames_logic_spawn
    \/ extract_frames_logic_wait
    \/ worker_complete
    \/ worker_except
    \/ worker_finally

\* the session in which the handler and the worker thread are scheduled and
\* every call of PySceneDetect and every ffmpeg process returns; what the user
\* does is not forced
SpecFair == Spec /\ WF_vars(RunSteps)

\* a session of the GUI in which the user picks a video, clicks "Start
\* Extraction" and clicks it once more before the button is shown disabled
InitClicks == Init /\ program = "gui"

NextClicks ==
    \/ on_video_picked
    \/ click_validate
    \/ click_save_settings
    \/ click_disable
    \/ click_parse_and_start
    \/ worker_init
    \/ worker_configure
    \/ worker_start_video
    \/ worker_detect
    \/ worker_midframes
    \/ extract_frames_logic_makedirs
    \/ extract_frames_logic_spawn
    \/ extract_frames_logic_wait
    \/ worker_complete
    \/ worker_except
    \/ worker_finally
    \/ second_click_delivered
    \/ second_click_handler
    \/ second_worker_detect
    \/ second_worker_spawn
    \/ second_worker_wait

SpecClicks == InitClicks /\ [][NextClicks]_vars

---------------------------------------------------------------------------
(* Vocabulary of the properties *)

\* the number a sequence of decimal digits denotes
RECURSIVE DecimalValue(_)
DecimalValue(ds) ==
    IF ds = <<>> THEN 0 ELSE 10 * DecimalValue(SubSeq(ds, 1, Len(ds) - 1)) + ds[Len(ds)]

\* the run is over
RunEnded == pc \in {"w_done", "cli_exit", "cli_raised", "cli_returned", "cli_usage_error"}

\* the run ended in Done: the worker set its success flag, or main() printed its summary
RunDone ==
    \/ program = "gui" /\ pc = "w_done" /\ extraction_successful
    \/ program = "cli" /\ pc = "cli_exit"

\* the run ended in Failed: an exception ended the worker or the script
RunFailed ==
    \/ program = "gui" /\ pc = "w_done" /\ ~extraction_successful /\ exc # "none"
    \/ program = "cli" /\ pc = "cli_raised"

\* the invocations of ffmpeg of the run that have a result of kind r
CapturesWith(r) == {i \in 1..Len(captures) : captures[i].result = r}

\* the position in the batch of the timecode an invocation seeks to
PositionOf(tc) == CHOOSE k \in 1..Len(midframes) : midframes[k] = tc

\* the status left on the screen tells the user that the run failed
StatusReportsFailure ==
    \/ status_text.what = "Extraction failed or was interrupted."
    \/ status_text.head \in {"Error:", "Error during extraction:", "ffmpeg error",
                             "ffmpeg command not found.",
                             "Error creating output directory:"}

---------------------------------------------------------------------------
(* Claims *)

\* largest slot number whose file name is computed
MaxSlot == 12

\* C1: for an ordered batch of N timecodes, the capture of the k-th timecode is
\* directed to the file named k in decimal, zero-padded to 4 digits, plus the
\* extension, inside the output directory; invocations come in input order
\* whatever the results of the earlier items were; no two items of a batch
\* share a file name (the names of the slots 1..MaxSlot denote their numbers,
\* so they differ).
C1_SlotNaming ==
    /\ \A i \in 1..Len(captures) :
         LET c == captures[i]
         IN  /\ PositionOf(c.tc) = i
             /\ DecimalValue(c.out.stem) = PositionOf(c.tc)
             /\ Len(c.out.stem) >= 4
             /\ Len(c.out.stem) > 4 => c.out.stem[1] # 0
             /\ c.out.ext = "jpg"
             /\ c.out.dir = args.output_d
    /\ \A i, j \in 1..Len(captures) : i # j => captures[i].out # captures[j].out
    /\ \A n \in 1..MaxSlot :
         /\ DecimalValue(OutPath(args.output_d, n, "jpg").stem) = n
         /\ Len(OutPath(args.output_d, n, "jpg").stem) = 4

\* C1 witness: the second item of a batch is captured after the first one failed
C1_Witness ==
    /\ Len(captures) >= 2
    /\ captures[1].result = "failed"
    /\ captures[2].result = "ok"
    /\ captures[2].out.stem = <<0, 0, 0, 2>>

\* C2: when ffmpeg runs but exits nonzero for item k, the batch is not aborted:
\* every later item is still attempted and the run ends in Done, not Failed.
C2_FailedItemDoesNotAbort ==
    (RunEnded /\ CapturesWith("failed") # {} /\ CapturesWith("notfound") = {})
        => (Len(captures) = Len(midframes) /\ RunDone)

\* C3: when the ffmpeg binary cannot be started for item k, the batch stops at
\* once: no later item is attempted, the run ends in Failed, and the files
\* written for the items before k stay in place.
C3_ToolMissingAborts ==
    /\ \A i \in CapturesWith("notfound") :
         /\ i = Len(captures)
         /\ pc \in {"w_except", "w_finally", "w_done", "cli_raised"}
         /\ exc = "FileNotFoundError"
         /\ RunEnded => RunFailed
    /\ files = {captures[i].out : i \in CapturesWith("ok")}

\* C3 witness: the run has ended after ffmpeg went missing at the second item,
\* the file of the first item exists
C3_Witness ==
    /\ RunEnded
    /\ Len(captures) = 2
    /\ captures[1].result = "ok"
    /\ captures[2].result = "notfound"
    /\ Len(midframes) > 2
    /\ captures[1].out \in files

\* an item whose ffmpeg exited nonzero has a failure report on the console
Reported(i) ==
    \E j \in 1..Len(console) :
      console[j].head = "ffmpeg error" /\ console[j].tc = {midframes[i]}

\* C4: every failed item is recorded: when the batch is over, each item whose
\* capture failed has a failure report, so each of the N items is accounted for
\* as a file or as a reported failure.
C4_EveryFailureReported ==
    RunDone =>
      /\ \A i \in CapturesWith("failed") : Reported(i)
      /\ \A k \in 1..Len(midframes) :
           OutPath(args.output_d, k, "jpg") \in files \/ Reported(k)

\* the detection pass of the run completed and found no scene
ZeroScenesRun ==
    /\ RunEnded
    /\ scenes = <<>>
    /\ exc = "none"
    /\ video_manager \in {"started", "released"}

\* C5: with zero detected scenes the run ends without a capture, without an
\* image and without an error, and what it reports to the user is not a failure.
C5_ZeroScenesIsDone ==
    ZeroScenesRun =>
      /\ captures = <<>>
      /\ files = {}
      /\ image_grid = <<>>
      /\ program = "gui" => ~StatusReportsFailure

\* C6: the video opened for detection is released on every path out of the
\* detection pass: once a run that started the pass is over, whether the pass
\* completed or raised, the handle is not held any more.
C6_VideoReleased == RunEnded => video_manager # "started"

\* C7: if the output directory cannot be created, the run fails before any
\* extraction: after the failed makedirs of the click handler no worker and no
\* detection is started, and after any failed makedirs no ffmpeg is invoked and
\* no image file is written.
C7_NoExtractionWithoutDirectory ==
    /\ status_text.head = "Error creating output directory:" =>
         /\ pc = "h_returned"
         /\ video_manager = "none"
         /\ captures = <<>>
         /\ files = {}
    /\ exc = "OSError" =>
         /\ captures = <<>>
         /\ files = {}
         /\ pc \in {"w_except", "w_finally", "w_done", "cli_raised"}
         /\ RunEnded => RunFailed

\* C7 witness: the click handler could not create the output directory
C7_Witness ==
    /\ program = "gui"
    /\ status_text.head = "Error creating output directory:"
    /\ dirs[selected_output_dir_text] = "file"

\* C8: an unknown algorithm is rejected before any video I/O: the video is not
\* opened for a run whose algorithm is not one of the four.
C8_UnknownAlgorithmBeforeVideoIO ==
    (args.algo \notin Algorithms /\ pc \notin {"idle", "cli_start", "h_settings",
                                              "h_disable", "h_parse", "h_returned"})
        => video_manager = "none" /\ exc \in {"none", "ValueError"}

\* C9: on Done the reported number of extracted images is the number of items
\* whose capture succeeded, and the reported number of scenes is the number of
\* detected scenes.
C9_ReportedCounts ==
    /\ (program = "cli" /\ pc = "cli_exit") =>
         /\ console[Len(console) - 1].n = Len(scenes)
         /\ console[Len(console)].n = Cardinality(CapturesWith("ok"))
    /\ (program = "gui" /\ pc = "w_done" /\ extraction_successful) =>
         status_text.n = Cardinality(CapturesWith("ok"))

\* C10: every mutation of the status text, the image list, the progress bar and
\* the start button is made by the thread that runs the interface's handlers,
\* never by the worker thread.
C10_UiMutationsOnUiThread == \A w \in ui_writes : w[2] = "ui"

\* the worker thread of the first click is running
WorkerRunning ==
    pc \in {"w_init", "w_config", "w_start", "w_detect", "w_mid", "x_mkdir", "x_spawn",
            "x_wait", "w_complete", "w_except", "w_finally"}

\* the worker thread of the second click is running
SecondWorkerRunning == second.pc \in {"w_run", "x_spawn", "x_wait"}

\* the ffmpeg processes that have been started and have not exited
InFlight ==
    Cardinality(CapturesWith("running"))
      + Cardinality({i \in 1..Len(second.captures) : second.captures[i].result = "running"})

\* C11: at most one ffmpeg process is in flight at any time and at most one
\* detect-and-extract worker is running at any time, whatever the interleaving
\* of clicks on the start button with a running worker, a second click
\* delivered before the first handler has disabled the button included.
C11_OneWorkerOneCapture ==
    /\ InFlight <= 1
    /\ ~(WorkerRunning /\ SecondWorkerRunning)

\* C12: a configuration error caused by an invalid numeric parameter fails
\* fast, before any I/O: when it is reported, no output directory has been
\* created, no settings file has been written and no video has been opened.
C12_ConfigErrorBeforeIO ==
    status_text.what = "Invalid numeric input for parameters" =>
      /\ created_dirs = {}
      /\ settings_file = {}
      /\ video_manager = "none"

\* C13: with the algorithm content, threshold or hist the fields window_size and
\* min_content_val are ignored entirely: two run requests that differ only in
\* these fields, unparsable texts included, get the same detector configuration
\* and the same outcome.  The request whose two fields hold "2" and "15.0" is
\* rejected as invalid numeric input only for its threshold or its minimum
\* scene length, so that must hold of every request, and the detector built
\* holds neither of the two values.
C13_AdaptiveFieldsIgnored ==
    /\ (algo_dropdown \in {"content", "threshold", "hist"}
          /\ status_text.what = "Invalid numeric input for parameters")
         => (~ParseFloat(threshold_input).ok \/ ~ParseInt(min_scene_len_input).ok)
    /\ \A det \in detector :
         det.kind \in {"content", "threshold", "hist"}
           => (det.window_width = {} /\ det.min_content_val = {})

\* the fatal errors of a run: the video cannot be opened, the algorithm is
\* unknown, ffmpeg is missing
FatalErrors == {"VideoOpenFailure", "ValueError", "FileNotFoundError"}

\* C14: when a run ends in Failed because of a fatal error, the status left
\* visible after the worker finishes carries the reason of the failure; it is
\* not replaced by a generic message.
C14_FailureReasonStays ==
    (program = "gui" /\ RunFailed /\ exc \in FatalErrors) =>
      /\ status_text.what # "Extraction failed or was interrupted."
      /\ status_text.head \in {"Error:", "Error during extraction:",
                               "ffmpeg command not found."}

\* C15: the video opened for detection is released before the first ffmpeg
\* invocation of the same run: in no reachable state is it held while an item
\* of the extraction is processed.
C15_ReleasedBeforeCapture ==
    /\ pc \in {"x_mkdir", "x_spawn", "x_wait", "e_mkdir", "e_spawn", "e_wait"}
         => video_manager = "released"
    /\ captures # <<>> => video_manager = "released"

\* C15 witness: the ffmpeg of the first item of a GUI run is in flight
C15_Witness ==
    /\ program = "gui"
    /\ pc = "x_wait"
    /\ Len(captures) = 1
    /\ captures[1].result = "running"
    /\ video_manager = "released"

\* the selected video path is unset, cancelled, or names no existing file
InvalidVideoPathAsSpecified ==
    \/ selected_video_path_text \in {NoVideoText, CancelledVideoText}
    \/ selected_video_path_text \in VideoPaths
         /\ VideoFiles[selected_video_path_text].kind = "missing"

\* the callback carries the index, the total and the timecode of item k
CarriesItem(c, k) ==
    c.index = {k} /\ c.total = {Len(midframes)} /\ c.tc = {midframes[k]}

\* ffmpeg has exited for item k
Completed(k) == captures[k].result \in {"ok", "failed"}

\* C16: during the extraction of N items the status observer is invoked exactly
\* once before the capture of each item and once for each completed item, in
\* item order, and each notification carries the 1-based index of the item, the
\* total N and the timecode of the item.
C16_ObserverPerItem ==
    program = "gui" =>
      \A k \in 1..Len(captures) :
        Cardinality({j \in 1..Len(callbacks) : CarriesItem(callbacks[j], k)})
          = IF Completed(k) THEN 2 ELSE 1

\* C16, amended: the status observer is invoked exactly once before the capture
\* of each item, in item order, with the 1-based index, the total N and the
\* timecode of the item.  A completed item is not notified with these values: a
\* successful capture invokes the image observer once, with the output path
\* only, and a failed capture invokes the status observer at most once, with an
\* error message that carries the timecode only; each of them follows the
\* notification made before its item.
C16_StatusBeforeEachItem ==
    program = "gui" =>
      LET IsBefore(c) == c.what = "Extracting frame"
          IsImage(c) == c.fn = "image_callback"
          IsError(c) == c.what = "ffmpeg error"
          IsOk(c) == c.result = "ok"
          before == SelectSeq(callbacks, IsBefore)
          images == SelectSeq(callbacks, IsImage)
          oks == SelectSeq(captures, IsOk)
          ItemAt(j) == Len(SelectSeq(SubSeq(callbacks, 1, j), IsBefore))
      IN  /\ Len(before) = Len(captures)
          /\ \A k \in 1..Len(before) :
               before[k] = Callback("status_callback", "Extracting frame", {k},
                                    {Len(midframes)}, {midframes[k]}, {})
          /\ Len(images) = Len(oks)
          /\ \A j \in 1..Len(images) :
               images[j] = Callback("image_callback", "", {}, {}, {}, {oks[j].out})
          /\ \A j \in 1..Len(callbacks) :
               /\ IsImage(callbacks[j]) =>
                    /\ ItemAt(j) >= 1
                    /\ callbacks[j].path = {captures[ItemAt(j)].out}
                    /\ j > 1 /\ IsBefore(callbacks[j - 1])
               /\ IsError(callbacks[j]) =>
                    /\ ItemAt(j) >= 1
                    /\ captures[ItemAt(j)].result = "failed"
                    /\ callbacks[j] = Callback("status_callback", "ffmpeg error", {}, {},
                                               {midframes[ItemAt(j)]}, {})
                    /\ j > 1 /\ IsBefore(callbacks[j - 1])

\* C16 witness: the first item was captured, the second failed and was reported
C16_Witness ==
    /\ program = "gui"
    /\ Len(captures) = 2
    /\ captures[1].result = "ok"
    /\ captures[2].result = "failed"
    /\ Len(callbacks) = 4
    /\ callbacks[3].index = {2}
    /\ callbacks[4].what = "ffmpeg error"

\* C20: a GUI run never enters the detection unless the selected video exists
\* and all four numeric fields parsed; when the video path is unset, cancelled
\* or does not exist, the click handler reports an error and leaves everything
\* else unchanged: no directory created, no settings file written, the image
\* list not cleared, the start button not disabled, no worker started.
C20_InvalidVideoChangesNothing ==
    /\ (WorkerRunning \/ pc = "w_done") =>
         /\ PathExists(args.video_p)
         /\ args.video_p = selected_video_path_text
         /\ ParseFloat(threshold_input).ok /\ ParseInt(min_scene_len_input).ok
         /\ ParseInt(window_size_input).ok /\ ParseFloat(min_content_val_input).ok
    /\ (program = "gui" /\ pc # "idle" /\ InvalidVideoPathAsSpecified) =>
         /\ pc = "h_returned"
         /\ status_text = Msg("Error:", "Please select a valid video file.", 0, NoTc)
         /\ ui_writes = {<<"status_text", "ui">>}
         /\ created_dirs = {}
         /\ settings_file = {}
         /\ files = {}
         /\ image_grid = <<>>
         /\ ~start_button /\ ~progress_bar
         /\ video_manager = "none"
         /\ captures = <<>>

\* C20 witness: the click was made with the path of a file that does not exist
C20_Witness ==
    /\ program = "gui"
    /\ pc = "h_returned"
    /\ selected_video_path_text = "/v/gone.mp4"
    /\ status_text.what = "Please select a valid video file."

\* the time a timecode string denotes, in milliseconds
TimecodeMillis(t) == ((t.hh * 60 + t.mm) * 60 + t.ss) * 1000 + t.mmm

\* a time in ticks to the nearest millisecond
Millis(ticks) == (ticks + (TicksPerSecond \div 1000) \div 2) \div (TicksPerSecond \div 1000)

\* a function was called on its own and has returned
Returned(function) == program = "call" /\ pc = "m_returned" /\ via = function

\* C17: for every non-negative mid point, at millisecond or finer resolution,
\* the timecode string of calculate_midframes has its minutes in 0..59 and its
\* seconds, rounded to three decimals, below 60 (it never renders 60.000), and
\* its hours are not wrapped at 24.
C17_TimecodeFieldsInRange ==
    Returned("calculate_midframes") =>
      \A k \in 1..Len(midframes) :
        /\ midframes[k].mm \in 0..59
        /\ midframes[k].ss \in 0..59
        /\ midframes[k].mmm \in 0..999
        /\ midframes[k].hh = MidSec(scenes[k]) \div (3600 * TicksPerSecond)

\* C18: for every scene list with start < end in each pair, calculate_midframes
\* and calculate_midframes_logic return exactly one timecode per scene, in the
\* order of the scenes, and the k-th value is (start_k + end_k) / 2, which lies
\* in [start_k, end_k] (the values to the millisecond of the string).
C18_MidpointPerScene ==
    (Returned("calculate_midframes") \/ Returned("calculate_midframes_logic")) =>
      /\ Len(midframes) = Len(scenes)
      /\ \A k \in 1..Len(midframes) :
           LET start == get_seconds(scenes[k][1])
               end == get_seconds(scenes[k][2])
               value == TimecodeMillis(midframes[k])
           IN  /\ value = Millis((start + end) \div 2)
               /\ Millis(start) <= value
               /\ value <= Millis(end)

\* C18, amended: both functions return exactly one timecode per scene, in the
\* order of the scenes.  The k-th value of calculate_midframes is
\* (start_k + end_k) / 2, which lies in [start_k, end_k].  The k-th value of
\* calculate_midframes_logic is the start of the frame of frame_rate that holds
\* that mid point, or the start of the frame before it when the mid point is
\* itself the start of a frame; it is not later than end_k, and not earlier
\* than start_k when frame_rate is the frame rate of the scenes.
C18_MidframePerScene ==
    (Returned("calculate_midframes") \/ Returned("calculate_midframes_logic")) =>
      /\ Len(midframes) = Len(scenes)
      /\ \A k \in 1..Len(midframes) :
           LET start == get_seconds(scenes[k][1])
               end == get_seconds(scenes[k][2])
               mid == (start + end) \div 2
               frame == FrameDuration(args.frame_rate)
               value == TimecodeMillis(midframes[k])
           IN  /\ Returned("calculate_midframes") =>
                    /\ value = Millis(mid)
                    /\ Millis(start) <= value
                    /\ value <= Millis(end)
               /\ Returned("calculate_midframes_logic") =>
                    /\ \/ value = Millis(mid - (mid % frame))
                       \/ mid % frame = 0 /\ mid >= frame /\ value = Millis(mid - frame)
                    /\ value <= Millis(end)
                    /\ scenes[k][1].fps = args.frame_rate => Millis(start) <= value

\* C18 witness: calculate_midframes_logic returned two timecodes, the first one
\* before the mid point of its scene, the second one at the mid point
C18_Witness ==
    /\ Returned("calculate_midframes_logic")
    /\ Len(midframes) = 2
    /\ TimecodeMillis(midframes[1]) < Millis(MidSec(scenes[1]))
    /\ TimecodeMillis(midframes[2]) = Millis(MidSec(scenes[2]))
    /\ scenes[1] # scenes[2]

\* C19: for every mid point m >= 0 and every frame rate fps > 0 the seek time of
\* the GUI is the time of frame floor(m * fps): it is never later than the time
\* in seconds the command line uses and differs from it by less than one frame
\* duration 1 / fps.
C19_FrameTimeNotLater ==
    Returned("calculate_midframes_logic") =>
      \A k \in 1..Len(midframes) :
        LET m == (get_seconds(scenes[k][1]) + get_seconds(scenes[k][2])) \div 2
            frame == FrameDuration(args.frame_rate)
            frame_time == (m \div frame) * frame
        IN  /\ frame_time <= m
            /\ m - frame_time < frame
            /\ TimecodeMillis(midframes[k]) = Millis(frame_time)
            /\ TimecodeMillis(midframes[k])
                 <= TimecodeMillis(calculate_midframes(scenes)[k])

\* the run of the GUI is over: the click handler returned without a worker, or
\* the worker thread ended
GuiRunOver == program = "gui" /\ pc \in {"h_returned", "w_done"}

ParametersOfControls ==
    /\ args.video_p = selected_video_path_text
    /\ args.output_d = selected_output_dir_text
    /\ args.algo = algo_dropdown
    /\ args.thresh_val = ParseFloat(threshold_input).val
    /\ args.min_len_val = ParseInt(min_scene_len_input).val
    /\ args.win_size_val = ParseInt(window_size_input).val
    /\ args.min_cont_val_val = ParseFloat(min_content_val_input).val

\* the worker is started and has not run yet: the write of the settings file was
\* tried, and either the file of the output directory holds the settings of
\* this run or the warning is shown
SettingsBeforeWorker ==
    (program = "gui" /\ pc = "w_init") =>
        /\ ParametersOfControls
        /\ \/ /\ status_text = Msg("Status:", "Settings saved", 0, NoTc)
              /\ settings_file = {settings_to_save}
              /\ dirs[args.output_d] = "dir"
           \/ /\ status_text = Msg("Warning:", "Could not save settings file", 0, NoTc)
              /\ settings_file = {}

\* the handler does not end on the warning of the settings file
WarningNotFinal == GuiRunOver => status_text.head # "Warning:"

\* the write of the settings file failed and nothing else stands in the way of
\* the detection
SettingsFileFailed ==
    /\ program = "gui" /\ pc = "h_parse"
    /\ status_text.head = "Warning:"
    /\ ParseFloat(threshold_input).ok /\ ParseInt(min_scene_len_input).ok
    /\ ParseInt(window_size_input).ok /\ ParseFloat(min_content_val_input).ok
    /\ algo_dropdown \in Algorithms
    /\ CanOpen(args.video_p)

\* the detection pass runs with the detector of the values of the controls
DetectionWithParameters ==
    /\ program = "gui" /\ pc = "w_detect"
    /\ ParametersOfControls
    /\ video_manager = "started"
    /\ detector = {MakeDetector(args.algo, args.thresh_val, args.min_len_val,
                                args.win_size_val, args.min_cont_val_val)}

\* C22: in the GUI the settings file is written into the output directory before
\* the worker starts, and a failure to write it does not end the run: the
\* detection still runs, with the parameters of the controls
C22_SettingsFileNonFatal ==
    /\ [](SettingsBeforeWorker /\ WarningNotFinal)
    /\ SettingsFileFailed ~> DetectionWithParameters

\* the detection found scenes in a run whose settings file could not be written
C22_Witness ==
    /\ program = "gui" /\ pc = "w_mid"
    /\ ParametersOfControls
    /\ scenes # <<>>
    /\ settings_file = {}
    /\ dirs[args.output_d] = "dir"

====
